---- MODULE Spec2Model ----
(***************************************************************************)
(* Uniformly partitioned overlap-save convolution                          *)
(* (src/src/partitioned_convolution.py): the constructor with its          *)
(* validation and filter partitioner, the input framer, the frequency-     *)
(* domain delay line (FDL) with its cursor, the partition multiply-        *)
(* accumulate and the output reconstruction.                               *)
(*                                                                         *)
(* Arrays are functions on 0..(n-1), indexed in the order of the numpy /   *)
(* torch arrays of the source.  Samples are integers and spectra are exact *)
(* cyclotomic integers, so the transforms are the exact DFT: floating-     *)
(* point roundoff (float32 / complex64) is not modelled.                   *)
(***************************************************************************)
EXTENDS Integers, Sequences, FiniteSets, TLC

VARIABLES
    self,   \* the engine object, a record of its attributes (NoEngine: none)
    ctor,   \* the last constructor call: its arguments and what it raised
    hist,   \* the input blocks of the accepted convolve calls, oldest first
    out     \* the last convolve call: what it raised, the block it returned

vars == <<self, ctor, hist, out>>

\* ------------------------------------------------------------ bounds
\* accepted convolve calls per engine
MaxCalls == 3
\* longest filter, in taps
MaxFL == 3

\* ------------------------------------------------------- index helpers
Range(n) == 0 .. (n - 1)

Dim(a) == Cardinality(DOMAIN a)

Abs(x) == IF x < 0 THEN -x ELSE x

RECURSIVE GCD(_, _)
GCD(a, b) == IF b = 0 THEN a ELSE GCD(b, a % b)

\* ------------------------------------------- real and complex samples
\* A real sample of an inverse transform is the fraction p/q in lowest
\* terms, <<p, q>> with q > 0; the integer v is <<v, 1>>.
Rat(p, q) ==
    LET g == GCD(Abs(p), q)
    IN  <<p \div g, q \div g>>

\* A complex sample is <<a, b, e>>, standing for a + b*u where u*u = -1 - e*u:
\* e = 0 gives the Gaussian integers (u = i), which hold the DFTs of length 2
\* and 4; e = 1 gives the Eisenstein integers (u = exp(2*pi*i/3)), which hold
\* the DFTs of length 3 and 6.
UnitOf(n) == IF n % 3 = 0 THEN 1 ELSE 0

CZero(e) == <<0, 0, e>>

CReal(x, e) == <<x, 0, e>>

CAdd(x, y) == <<x[1] + y[1], x[2] + y[2], x[3]>>

CMul(x, y) ==
    <<x[1] * y[1] - x[2] * y[2],
      x[1] * y[2] + x[2] * y[1] - x[3] * x[2] * y[2],
      x[3]>>

CConj(x) == <<x[1] - x[3] * x[2], -x[2], x[3]>>

\* twice the real part (the real part of u is -e/2)
TwoRe(x) == 2 * x[1] - x[3] * x[2]

RECURSIVE CPow(_, _)
CPow(w, k) == IF k = 0 THEN CReal(1, w[3]) ELSE CMul(w, CPow(w, k - 1))

RECURSIVE CSum(_, _)
CSum(f, n) == IF n = 1 THEN f[0] ELSE CAdd(CSum(f, n - 1), f[n - 1])

RECURSIVE ISum(_, _)
ISum(f, n) == IF n = 0 THEN 0 ELSE ISum(f, n - 1) + f[n - 1]

\* exp(-2*pi*i/n) in the ring e
Twiddle(n, e) ==
    CASE n = 1 -> <<1, 0, e>>
      [] n = 2 -> <<-1, 0, e>>
      [] n = 4 /\ e = 0 -> <<0, -1, e>>
      [] n = 3 /\ e = 1 -> <<-1, -1, e>>
      [] n = 6 /\ e = 1 -> <<0, -1, e>>

\* torch.fft.rfft / np.fft.rfft of a real array x of length n: the bins
\* 0 .. n // 2 of the forward DFT, in the ring e.
rfft(x, e) ==
    LET n == Dim(x)
        w == Twiddle(n, e)
    IN  [m \in Range((n \div 2) + 1) |->
            CSum([t \in Range(n) |->
                    CMul(CReal(x[t], e), CPow(w, (m * t) % n))], n)]

\* torch.fft.irfft of M bins with no length given: a real output of length
\* n = 2 * (M - 1).  As the complex-to-real transform does, it takes the first
\* and last bins as real (their imaginary parts are dropped) and the bins
\* between as one half of a Hermitian spectrum.
irfft(Y) ==
    LET M == Dim(Y)
        n == 2 * (M - 1)
        v == CConj(Twiddle(n, Y[0][3]))
        sign(j) == IF j % 2 = 0 THEN 1 ELSE -1
    IN  [j \in Range(n) |->
            Rat(TwoRe(Y[0])
                + 2 * ISum([i \in Range(M - 2) |->
                        TwoRe(CMul(Y[i + 1], CPow(v, ((i + 1) * j) % n)))], M - 2)
                + sign(j) * TwoRe(Y[M - 1]),
                2 * n)]

\* ------------------------------------------------------ the constructor
\* np.pad(a, ((0, 0), (0, extra))) of a 2-D array: zeros appended to each row.
pad_rows(a, rows, cols, extra) ==
    [c \in Range(rows) |->
        [t \in Range(cols + extra) |-> IF t < cols THEN a[c][t] ELSE 0]]

\* the reshape with order='C' in place of order='F': both arrays read and
\* written in row-major order (last index fastest)
reshape_F_row_major(a, rows, d0, d1, d2) ==
    LET cols == (d0 * d1 * d2) \div rows
    IN  [i \in Range(d0) |-> [j \in Range(d1) |-> [l \in Range(d2) |->
            LET flat == (i * d1 + j) * d2 + l
            IN  a[flat \div cols][flat % cols]]]]

\* a.reshape((d0, d1, d2), order='F') of a 2-D array with `rows` rows: both
\* arrays are read and written in column-major order (first index fastest).
reshape_F(a, rows, d0, d1, d2) ==
    [i \in Range(d0) |-> [j \in Range(d1) |-> [l \in Range(d2) |->
        LET flat == i + d0 * (j + d1 * l)
        IN  a[flat % rows][flat \div rows]]]]

\* __create_filter_blocks__: the filter cut into K blocks of B taps, each
\* zero-padded to fft_size and transformed along axis 1.  The result is
\* indexed [c][m][k].
create_filter_blocks(obj, filter_td) ==
    LET remainder == obj.K * obj.B - obj.FL
        filter_parts ==
            reshape_F(pad_rows(filter_td, obj.C, obj.FL, remainder),
                      obj.C, obj.C, obj.B, obj.K)
        filters_padded ==
            [c \in Range(obj.C) |-> [t \in Range(obj.fft_size) |->
                [k \in Range(obj.K) |->
                    IF t < obj.B THEN filter_parts[c][t][k] ELSE 0]]]
        spectrum(c, k) ==
            rfft([t \in Range(obj.fft_size) |-> filters_padded[c][t][k]],
                 UnitOf(obj.fft_size))
    IN  [c \in Range(obj.C) |-> [m \in Range((obj.fft_size \div 2) + 1) |->
            [k \in Range(obj.K) |-> spectrum(c, k)[m]]]]

\* int(np.ceil(FL / B)) for B # 0
CeilDiv(FL, B) ==
    IF B > 0 THEN (FL + B - 1) \div B ELSE -(FL \div (-B))

\* the engine attribute of a program that holds no engine
NoEngine == [cls |-> "None"]

Raise(exc) == [raised |-> exc, self |-> NoEngine]

\* PartitionedConvolution.__init__.  filter_td is [ndim, shape, data];
\* fft_size is <<>> for the default (None) and <<n>> for n.
PartitionedConvolution_init(cls, filter_td, block_length_samples, fft_size, num_input_channels, device) ==
    IF filter_td.ndim # 2 THEN Raise("ValueError")
    ELSE
        LET C == filter_td.shape[1]
            FL == filter_td.shape[2]
            B == block_length_samples
        IN
        IF B = 0 THEN Raise("ZeroDivisionError")
        ELSE
            LET K == CeilDiv(FL, B)
                N == IF fft_size # <<>> THEN fft_size[1] ELSE 2 * B
            IN
            IF FL < B THEN Raise("ValueError")
            ELSE IF B < 1 THEN Raise("ValueError")
            ELSE IF N < 2 * B THEN Raise("ValueError")
            ELSE IF FL < 1 THEN Raise("ValueError")
            ELSE IF C < 1 THEN Raise("ValueError")
            ELSE IF num_input_channels \notin {1, C} THEN Raise("ValueError")
            ELSE IF device \notin {"cpu", "gpu"} THEN Raise("ValueError")
            ELSE
                LET num_bins == (N \div 2) + 1
                    obj == [C |-> C, FL |-> FL, B |-> B, K |-> K, fft_size |-> N]
                IN  [raised |-> "None",
                     self |->
                        [cls |-> cls, C |-> C, FL |-> FL,
                         input_C |-> num_input_channels, B |-> B, K |-> K,
                         fft_size |-> N, device |-> device,
                         num_bins |-> num_bins,
                         filters_fd |-> create_filter_blocks(obj, filter_td.data),
                         fdl |-> [ci \in Range(num_input_channels) |->
                                    [m \in Range(num_bins) |->
                                        [k \in Range(K) |-> CZero(UnitOf(N))]]],
                         fdl_cursor |-> 0,
                         input_buffer_td |->
                            [ci \in Range(num_input_channels) |->
                                [t \in Range(N) |-> 0]],
                         fdl_gpu |-> <<>>]]

\* PartitionedConvolutionCPU.__init__: the base constructor with the default
\* device.  (temp_buffer is scratch: cpu_multiply writes all of it before it
\* reads any of it, so it is a local of cpu_multiply here.)
PartitionedConvolutionCPU_init(filter_td, block_length_samples, fft_size, num_input_channels) ==
    PartitionedConvolution_init("PartitionedConvolutionCPU", filter_td,
        block_length_samples, fft_size, num_input_channels, "cpu")

\* PartitionedConvolutionGPU.__init__: the base constructor with device
\* 'gpu', then the FDL copied to the device (the filter table's device copy
\* holds the values of filters_fd and is read through filters_fd).
PartitionedConvolutionGPU_init(filter_td, block_length_samples, fft_size, num_input_channels) ==
    LET r == PartitionedConvolution_init("PartitionedConvolutionGPU", filter_td,
                block_length_samples, fft_size, num_input_channels, "gpu")
    IN  IF r.raised # "None" THEN r
        ELSE [r EXCEPT !.self.fdl_gpu = r.self.fdl]

\* the constructor of class a.cls called with the arguments a
New(a) ==
    CASE a.cls = "PartitionedConvolutionCPU" ->
            PartitionedConvolutionCPU_init(a.filter_td, a.block_length_samples,
                a.fft_size, a.num_input_channels)
      [] a.cls = "PartitionedConvolutionGPU" ->
            PartitionedConvolutionGPU_init(a.filter_td, a.block_length_samples,
                a.fft_size, a.num_input_channels)
      [] OTHER ->
            PartitionedConvolution_init(a.cls, a.filter_td,
                a.block_length_samples, a.fft_size, a.num_input_channels,
                a.device)

\* ------------------------------------------------------------ convolve
\* the roll in the opposite direction
roll_opposite(a, shift, n) ==
    [c \in DOMAIN a |-> [t \in Range(n) |-> a[c][(t + shift) % n]]]

\* torch.roll(a, shift, dims=1) of a 2-D array with rows of length n: the
\* element at t moves to (t + shift) mod n.
roll(a, shift, n) ==
    [c \in DOMAIN a |-> [t \in Range(n) |-> a[c][(t - shift) % n]]]

\* __parse_input__ with the buffer shifted before the signal is validated
parse_input_shift_first(obj, signal) ==
    LET is2d == signal.shape = <<obj.input_C, obj.B>>
        is1d == signal.shape = <<obj.B>> /\ obj.input_C = 1
        N == obj.fft_size
        rolled == roll(obj.input_buffer_td, -obj.B, N)
        shifted == [obj EXCEPT !.input_buffer_td = rolled]
    IN  IF ~is2d /\ ~is1d
        THEN [raised |-> "ValueError", self |-> shifted, input_fd |-> <<>>]
        ELSE IF signal.dtype \notin {"torch.float32", "np.float32"}
        THEN [raised |-> "ValueError", self |-> shifted, input_fd |-> <<>>]
        ELSE
            LET sig == IF is2d THEN signal.data
                       ELSE [c \in Range(1) |-> signal.data]
                buf == [c \in Range(obj.input_C) |-> [t \in Range(N) |->
                            IF t >= N - obj.B THEN sig[c][t - (N - obj.B)]
                            ELSE rolled[c][t]]]
            IN  [raised |-> "None",
                 self |-> [obj EXCEPT !.input_buffer_td = buf],
                 input_fd |-> [c \in Range(obj.input_C) |->
                                rfft(buf[c], UnitOf(N))]]

\* __parse_input__: validation, then the framer (shift left by B, new block
\* into the last B places) and the transform of the window.  signal is
\* [shape, dtype, data].
parse_input(obj, signal) ==
    LET is2d == signal.shape = <<obj.input_C, obj.B>>
        is1d == signal.shape = <<obj.B>> /\ obj.input_C = 1
    IN  IF ~is2d /\ ~is1d
        THEN [raised |-> "ValueError", self |-> obj, input_fd |-> <<>>]
        ELSE IF signal.dtype \notin {"torch.float32", "np.float32"}
        THEN [raised |-> "ValueError", self |-> obj, input_fd |-> <<>>]
        ELSE
            LET sig == IF is2d THEN signal.data
                       ELSE [c \in Range(1) |-> signal.data]
                N == obj.fft_size
                rolled == roll(obj.input_buffer_td, -obj.B, N)
                buf == [c \in Range(obj.input_C) |-> [t \in Range(N) |->
                            IF t >= N - obj.B THEN sig[c][t - (N - obj.B)]
                            ELSE rolled[c][t]]]
            IN  [raised |-> "None",
                 self |-> [obj EXCEPT !.input_buffer_td = buf],
                 input_fd |-> [c \in Range(obj.input_C) |->
                                rfft(buf[c], UnitOf(N))]]

\* the FDL write landing one slot after the cursor
fdl_store_next(fdl, cursor, input_fd) ==
    [ci \in DOMAIN fdl |-> [m \in DOMAIN fdl[ci] |->
        [k \in DOMAIN fdl[ci][m] |->
            IF k = (cursor + 1) % Dim(fdl[ci][m]) THEN input_fd[ci][m]
            ELSE fdl[ci][m][k]]]]

\* fdl[:, :, cursor] = input_fd
fdl_store(fdl, cursor, input_fd) ==
    [ci \in DOMAIN fdl |-> [m \in DOMAIN fdl[ci] |->
        [k \in DOMAIN fdl[ci][m] |->
            IF k = cursor THEN input_fd[ci][m] ELSE fdl[ci][m][k]]]]

\* cpu_multiply (matched input): partition k times the spectrum k blocks
\* back, summed over k.  filters_fd is indexed [c][m][k], fdl [ci][m][k].
cpu_multiply(filters_fd, fdl, fdl_cursor) ==
    LET C == Dim(filters_fd)
        M == Dim(filters_fd[0])
        K == Dim(filters_fd[0][0])
        temp_buffer ==
            [k \in Range(K) |->
                LET cursor == (K + (fdl_cursor - k)) % K
                IN  [c \in Range(C) |-> [m \in Range(M) |->
                        CMul(filters_fd[c][m][k], fdl[c][m][cursor])]]]
    IN  [c \in Range(C) |-> [m \in Range(M) |->
            CSum([k \in Range(K) |-> temp_buffer[k][c][m]], K)]]

\* cpu_multiply_single_input reading the ring forwards from the cursor
cpu_multiply_single_input_forward(filters_fd, fdl, fdl_cursor) ==
    LET C == Dim(filters_fd)
        M == Dim(filters_fd[0])
        K == Dim(filters_fd[0][0])
        temp_buffer ==
            [k \in Range(K) |->
                LET cursor == (fdl_cursor + k) % K
                IN  [c \in Range(C) |-> [m \in Range(M) |->
                        CMul(filters_fd[c][m][k], fdl[0][m][cursor])]]]
    IN  [c \in Range(C) |-> [m \in Range(M) |->
            CSum([k \in Range(K) |-> temp_buffer[k][c][m]], K)]]

\* cpu_multiply_single_input (broadcast input): as cpu_multiply, every
\* channel's filter against input channel 0.
cpu_multiply_single_input(filters_fd, fdl, fdl_cursor) ==
    LET C == Dim(filters_fd)
        M == Dim(filters_fd[0])
        K == Dim(filters_fd[0][0])
        temp_buffer ==
            [k \in Range(K) |->
                LET cursor == (K + (fdl_cursor - k)) % K
                IN  [c \in Range(C) |-> [m \in Range(M) |->
                        CMul(filters_fd[c][m][k], fdl[0][m][cursor])]]]
    IN  [c \in Range(C) |-> [m \in Range(M) |->
            CSum([k \in Range(K) |-> temp_buffer[k][c][m]], K)]]

\* the CPU __perform_convolution__ with the cursor advanced before the
\* multiply instead of after it
PartitionedConvolutionCPU_perform_convolution_advance_first(obj, input_fd) ==
    LET fdl == fdl_store(obj.fdl, obj.fdl_cursor, input_fd)
        advanced == (obj.fdl_cursor + 1) % obj.K
        output_fd ==
            IF obj.input_C = 1
            THEN cpu_multiply_single_input(obj.filters_fd, fdl, advanced)
            ELSE cpu_multiply(obj.filters_fd, fdl, advanced)
    IN  [raised |-> "None",
         self |-> [obj EXCEPT !.fdl = fdl, !.fdl_cursor = advanced],
         output_fd |-> output_fd,
         mac_cursor |-> advanced]

\* PartitionedConvolutionCPU.__perform_convolution__: FDL write at the
\* cursor, the multiply with that cursor, then the cursor advance.
\* mac_cursor is the cursor value handed to the multiply.
PartitionedConvolutionCPU_perform_convolution(obj, input_fd) ==
    LET fdl == fdl_store(obj.fdl, obj.fdl_cursor, input_fd)
        output_fd ==
            IF obj.input_C = 1
            THEN cpu_multiply_single_input(obj.filters_fd, fdl, obj.fdl_cursor)
            ELSE cpu_multiply(obj.filters_fd, fdl, obj.fdl_cursor)
    IN  [raised |-> "None",
         self |-> [obj EXCEPT !.fdl = fdl,
                              !.fdl_cursor = (obj.fdl_cursor + 1) % obj.K],
         output_fd |-> output_fd,
         mac_cursor |-> obj.fdl_cursor]

\* The device kernel part_conv_gpu of kernel.cu: it writes the input
\* spectrum into the FDL slot at the cursor, then computes
\* Y[c, m] = sum_k H[c, m, k] * FDL[ci, m, (cursor - k + K) mod K] with
\* ci = c for matched input and ci = 0 for broadcast input.
part_conv_gpu(input_fd, fdl, filters_fd, fdl_cursor) ==
    LET C == Dim(filters_fd)
        M == Dim(filters_fd[0])
        K == Dim(filters_fd[0][0])
        written == fdl_store(fdl, fdl_cursor, input_fd)
        ci(c) == IF Dim(fdl) = C THEN c ELSE 0
    IN  [fdl |-> written,
         output_fd |->
            [c \in Range(C) |-> [m \in Range(M) |->
                CSum([k \in Range(K) |->
                        CMul(filters_fd[c][m][k],
                             written[ci(c)][m][(fdl_cursor - k + K) % K])],
                     K)]]]

\* the GPU __perform_convolution__ without the cursor advance
PartitionedConvolutionGPU_perform_convolution_no_advance(obj, input_fd) ==
    LET r == part_conv_gpu(input_fd, obj.fdl_gpu, obj.filters_fd, obj.fdl_cursor)
    IN  [raised |-> "None",
         self |-> [obj EXCEPT !.fdl_gpu = r.fdl],
         output_fd |-> r.output_fd,
         mac_cursor |-> obj.fdl_cursor]

\* PartitionedConvolutionGPU.__perform_convolution__: one kernel call with the
\* current cursor, then the cursor advance on the host.
PartitionedConvolutionGPU_perform_convolution(obj, input_fd) ==
    LET r == part_conv_gpu(input_fd, obj.fdl_gpu, obj.filters_fd, obj.fdl_cursor)
    IN  [raised |-> "None",
         self |-> [obj EXCEPT !.fdl_gpu = r.fdl,
                              !.fdl_cursor = (obj.fdl_cursor + 1) % obj.K],
         output_fd |-> r.output_fd,
         mac_cursor |-> obj.fdl_cursor]

\* __perform_convolution__ of the object's class; the base class has none.
perform_convolution(obj, input_fd) ==
    CASE obj.cls = "PartitionedConvolutionCPU" ->
            PartitionedConvolutionCPU_perform_convolution(obj, input_fd)
      [] obj.cls = "PartitionedConvolutionGPU" ->
            PartitionedConvolutionGPU_perform_convolution(obj, input_fd)
      [] OTHER ->
            [raised |-> "NotImplementedError", self |-> obj,
             output_fd |-> <<>>, mac_cursor |-> -1]

\* convolve: the framer, the FDL write and multiply, the inverse transform of
\* each channel and its last B samples.
convolve(obj, signal_td) ==
    LET p == parse_input(obj, signal_td)
    IN  IF p.raised # "None"
        THEN [raised |-> p.raised, self |-> p.self, value |-> <<>>,
              mac_cursor |-> -1]
        ELSE
            LET q == perform_convolution(p.self, p.input_fd)
            IN  IF q.raised # "None"
                THEN [raised |-> q.raised, self |-> q.self, value |-> <<>>,
                      mac_cursor |-> -1]
                ELSE
                    LET output_td ==
                            [c \in Range(obj.C) |-> irfft(q.output_fd[c])]
                        n == Dim(output_td[0])
                    IN  [raised |-> "None",
                         self |-> q.self,
                         value |-> [c \in Range(obj.C) |->
                                      [j \in Range(obj.B) |->
                                          output_td[c][n - obj.B + j]]],
                         mac_cursor |-> q.mac_cursor]

\* ------------------------------------------------- the inputs explored
Zeros1(n) == [t \in Range(n) |-> 0]

Zeros2(r, n) == [c \in Range(r) |-> Zeros1(n)]

\* a filter argument: a 2-D array of the given shape
Filter2(C, FL, data) == [ndim |-> 2, shape |-> <<C, FL>>, data |-> data]

\* The filter of the engines that are run: all taps distinct and nonzero,
\* across channels too, with alternating signs.
Ramp(C, FL) ==
    [c \in Range(C) |-> [t \in Range(FL) |->
        (IF t % 2 = 0 THEN 1 ELSE -1) * (t + 1 + c * FL)]]

RunFilters(C, FL) == {Filter2(C, FL, Ramp(C, FL))}

\* <<B, N>>: the block lengths and FFT sizes whose DFT the sample rings hold
Geometries == {<<1, 2>>, <<1, 3>>, <<1, 4>>, <<2, 4>>}

\* <<C, Cin>>
Channels == {<<1, 1>>, <<2, 1>>, <<2, 2>>}

BackEnds == {"PartitionedConvolutionCPU", "PartitionedConvolutionGPU"}

\* constructor calls of the two back-end classes with valid arguments
EngineArgs ==
    UNION {
        {[cls |-> q[1], filter_td |-> f, block_length_samples |-> q[2][1],
          fft_size |-> <<q[2][2]>>, num_input_channels |-> q[3][2],
          device |-> "cpu"] : f \in RunFilters(q[3][1], q[4])}
        : q \in {p \in BackEnds \X Geometries \X Channels \X (1 .. MaxFL) :
                    p[4] >= p[2][1]}}

\* input blocks: silence, or one unit sample in one channel
Pulses(Cin, B) ==
    {Zeros2(Cin, B)}
    \cup {[c \in Range(Cin) |-> [t \in Range(B) |->
            IF c = c0 /\ t = t0 THEN 1 ELSE 0]] :
            c0 \in Range(Cin), t0 \in Range(B)}

\* the blocks a caller passes to convolve: well-formed ones (2-D torch
\* tensors, 2-D and 1-D numpy arrays), and ones of a wrong shape or dtype
Signals(obj) ==
    LET Cin == obj.input_C
        B == obj.B
    IN  {[shape |-> <<Cin, B>>, dtype |-> "torch.float32", data |-> x] :
            x \in Pulses(Cin, B) \ {Zeros2(Cin, B)}}
        \cup {[shape |-> <<Cin, B>>, dtype |-> "np.float32",
               data |-> Zeros2(Cin, B)],
              [shape |-> <<B>>, dtype |-> "np.float32",
               data |-> [t \in Range(B) |-> IF t = 0 THEN 1 ELSE 0]],
              [shape |-> <<B>>, dtype |-> "torch.float32",
               data |-> Zeros1(B)],
              [shape |-> <<Cin, B + 1>>, dtype |-> "torch.float32",
               data |-> Zeros2(Cin, B + 1)],
              [shape |-> <<B + 1>>, dtype |-> "np.float32",
               data |-> Zeros1(B + 1)],
              [shape |-> <<Cin, B>>, dtype |-> "torch.float64",
               data |-> Zeros2(Cin, B)],
              [shape |-> <<Cin, B>>, dtype |-> "np.int64",
               data |-> Zeros2(Cin, B)]}

\* the block as the framer stores it: 2-D
Block(signal) ==
    IF Len(signal.shape) = 2 THEN signal.data
    ELSE [c \in Range(1) |-> signal.data]

\* ------------------------------------------------------------- actions
Init ==
    /\ self = NoEngine
    /\ ctor = [called |-> FALSE]
    /\ hist = <<>>
    /\ out = [raised |-> "uncalled", value |-> <<>>, mac_cursor |-> -1]

\* a constructor call with the arguments a
Construct(a) ==
    /\ LET r == New(a)
       IN  /\ self' = r.self
           /\ ctor' = [called |-> TRUE, args |-> a, raised |-> r.raised]
    /\ UNCHANGED <<hist, out>>

\* one convolve call on the engine
Convolve ==
    /\ self.cls # "None"
    /\ \E signal \in Signals(self) :
        LET r == convolve(self, signal)
        IN  /\ r.raised = "None" => Len(hist) < MaxCalls
            /\ self' = r.self
            /\ out' = [raised |-> r.raised, value |-> r.value,
                       mac_cursor |-> r.mac_cursor]
            /\ hist' = IF r.raised = "None" THEN Append(hist, Block(signal))
                       ELSE hist
    /\ UNCHANGED ctor

\* the program constructs one engine, of a back-end class
ConstructEngine == ~ctor.called /\ \E a \in EngineArgs : Construct(a)

Next == ConstructEngine \/ Convolve

Spec == Init /\ [][Next]_vars

\* ------------------------------------------- the constructor on its own
TapVals == {0, 1}

\* a single unit tap: the last one of channel 0, the first one of channel 1
Delay(C, FL) ==
    [c \in Range(C) |-> [t \in Range(FL) |->
        IF (c = 0 /\ t = FL - 1) \/ (c = 1 /\ t = 0) THEN 1 ELSE 0]]

\* 2-D filters: the ramp, the delay, and every 0/1 row repeated in each channel
CtorFilters(C, FL) ==
    {Filter2(C, FL, Ramp(C, FL)), Filter2(C, FL, Delay(C, FL))}
    \cup {Filter2(C, FL, [c \in Range(C) |-> row]) :
            row \in [Range(FL) -> TapVals]}

\* constructor calls: the base class takes any device, each back-end class
\* fixes its own
CtorArgs ==
    LET filters ==
            {[ndim |-> 1, shape |-> <<2>>, data |-> Zeros1(2)],
             [ndim |-> 3, shape |-> <<1, 1, 2>>,
              data |-> [c \in Range(1) |-> Zeros2(1, 2)]]}
            \cup UNION {CtorFilters(s[1], s[2]) :
                            s \in (0 .. 2) \X (0 .. MaxFL)}
    IN  [cls : {"PartitionedConvolution"}, device : {"cpu", "gpu", "tpu"},
         filter_td : filters, block_length_samples : -1 .. 3,
         fft_size : {<<>>, <<1>>, <<2>>, <<3>>, <<4>>, <<6>>},
         num_input_channels : 1 .. 3]
        \cup [cls : {"PartitionedConvolutionCPU"}, device : {"cpu"},
              filter_td : filters, block_length_samples : -1 .. 3,
              fft_size : {<<>>, <<1>>, <<2>>, <<3>>, <<4>>, <<6>>},
              num_input_channels : 1 .. 3]
        \cup [cls : {"PartitionedConvolutionGPU"}, device : {"gpu"},
              filter_td : filters, block_length_samples : -1 .. 3,
              fft_size : {<<>>, <<1>>, <<2>>, <<3>>, <<4>>, <<6>>},
              num_input_channels : 1 .. 3]

\* the program calls one constructor, with any arguments
ConstructAny == ~ctor.called /\ \E a \in CtorArgs : Construct(a)

NextCtor == ConstructAny

SpecCtor == Init /\ [][NextCtor]_vars

\* ----------------------------------------------------------- reference
\* what the properties below compare the engine with, computed from the
\* constructor's arguments and the accepted input blocks alone

Constructed == self.cls # "None"

\* sample s of input channel ci of the stream h of B-sample blocks, zero
\* before the first block
StreamAt(h, B, ci, s) ==
    IF s < 0 THEN 0 ELSE h[(s \div B) + 1][ci][s % B]

\* sample s of the direct-form linear convolution of the taps with the stream
LinearConvolution(taps, FL, h, B, ci, s) ==
    ISum([t \in Range(FL) |-> taps[t] * StreamAt(h, B, ci, s - t)], FL)

\* the input channel that output channel c is convolved with
InputChannelOf(c) == IF self.input_C = 1 THEN 0 ELSE c

\* the N most recent samples of every input channel once call i (from 0) of
\* the stream h has been received; all zero for i < 0
WindowAfter(h, i) ==
    [ci \in Range(self.input_C) |-> [t \in Range(self.fft_size) |->
        StreamAt(h, self.B, ci, (i + 1) * self.B - self.fft_size + t)]]

\* the spectrum of that window, indexed [ci][m]
SpectrumAfter(h, i) ==
    [ci \in Range(self.input_C) |->
        [m \in Range(self.num_bins) |->
            rfft(WindowAfter(h, i)[ci], UnitOf(self.fft_size))[m]]]

\* the FDL the engine's back end works on
FDLOf(obj) ==
    IF obj.cls = "PartitionedConvolutionGPU" THEN obj.fdl_gpu ELSE obj.fdl

\* ring position p of the FDL, indexed [ci][m]
Slot(obj, p) ==
    [ci \in Range(obj.input_C) |->
        [m \in Range(obj.num_bins) |-> FDLOf(obj)[ci][m][p]]]

\* a well-formed convolve argument holding the block x
SignalOf(x) ==
    [shape |-> <<Dim(x), Dim(x[0])>>, dtype |-> "torch.float32", data |-> x]

\* the engine and the last returned block after constructing with the
\* arguments a and convolving the blocks of h in order
RECURSIVE Replay(_, _)
Replay(a, h) ==
    IF h = <<>> THEN [self |-> New(a).self, value |-> <<>>]
    ELSE
        LET before == Replay(a, SubSeq(h, 1, Len(h) - 1))
            r == convolve(before.self, SignalOf(h[Len(h)]))
        IN  [self |-> r.self, value |-> r.value]

\* ------------------------------------------------------------------ C1
\* C1: with N = 2*B, the block returned by the n-th accepted call (from 0)
\* holds, on every output channel c, samples n*B .. (n+1)*B - 1 of the linear
\* convolution of channel c's filter with all input received so far (input
\* channel c for matched input, the one input channel for broadcast input).
C1_LinearConvolution ==
    (Constructed /\ out.raised = "None" /\ self.fft_size = 2 * self.B) =>
        \A c \in Range(self.C) : \A j \in Range(self.B) :
            out.value[c][j] =
                <<LinearConvolution(ctor.args.filter_td.data[c], self.FL, hist,
                      self.B, InputChannelOf(c),
                      (Len(hist) - 1) * self.B + j), 1>>

\* the ring has wrapped (more calls than partitions), the filter length is
\* not a multiple of B, the input is broadcast, and the block is not silence
C1_Witness ==
    /\ Constructed /\ out.raised = "None"
    /\ self.fft_size = 2 * self.B /\ self.B = 2 /\ self.FL = 3
    /\ self.C = 2 /\ self.input_C = 1
    /\ Len(hist) = 3
    /\ out.value[1][1] # <<0, 1>>
    /\ hist[1] # Zeros2(1, 2)

\* ------------------------------------------------------------------ C4
\* C4: on every accepted call the engine returns the block that the engine
\* built from the same filter and block length with N = 2*B returns for the
\* same input stream.
C4_SameAsTwoB ==
    (Constructed /\ out.raised = "None") =>
        out.value =
            Replay([ctor.args EXCEPT !.fft_size = <<2 * self.B>>], hist).value

\* ------------------------------------------------------------------ C7
\* C7 as claimed: between calls, ring position p holds the spectrum of the
\* frame written (fdl_cursor - p) mod K blocks ago, the most recent frame
\* being 0 blocks old.
C7_AsClaimed ==
    Constructed =>
        \A p \in Range(self.K) :
            Slot(self, p) =
                SpectrumAfter(hist,
                    Len(hist) - 1 - ((self.fdl_cursor - p) % self.K))

\* C7 amended: between calls, ring position p holds the spectrum of the frame
\* written (fdl_cursor - 1 - p) mod K blocks ago, the most recent frame being
\* 0 blocks old (the all-zero frame where fewer calls were made).
C7_CursorIsOneAhead ==
    Constructed =>
        \A p \in Range(self.K) :
            Slot(self, p) =
                SpectrumAfter(hist,
                    Len(hist) - 1 - ((self.fdl_cursor - 1 - p) % self.K))

\* three partitions, three calls: every slot written, the cursor back at 0,
\* with a nonzero frame in the slot the cursor points at
C7_Witness ==
    /\ Constructed /\ self.K = 3 /\ Len(hist) = 3
    /\ self.fdl_cursor = 0
    /\ hist[1] # Zeros2(self.input_C, self.B)
    /\ hist[3] # Zeros2(self.input_C, self.B)

\* ----------------------------------------------------------------- C10
\* C10: the input buffer of each channel holds, oldest first, the N most
\* recent samples received in accepted calls, zeros standing for the samples
\* before the first call; failed calls and everything else leave it alone.
C10_BufferIsLastN ==
    Constructed =>
        self.input_buffer_td = WindowAfter(hist, Len(hist) - 1)

\* N > 2*B, and more samples received than the buffer holds
C10_Witness ==
    /\ Constructed /\ self.fft_size = 3 /\ self.B = 1 /\ Len(hist) = 3
    /\ hist[1][0][0] = 1
    /\ self.input_buffer_td[0][self.fft_size - 1] = 1
    /\ out.raised = "ValueError"

\* ------------------------------------------------------------------ C2
\* C2: a convolve call that raises for the shape or dtype of its input leaves
\* the input buffer, the FDL and the cursor as they were, and every accepted
\* call returns the block that an engine which received the accepted calls
\* alone returns.
C2_FailedCallChangesNothing ==
    [][/\ out'.raised = "ValueError" =>
            /\ self'.input_buffer_td = self.input_buffer_td
            /\ FDLOf(self') = FDLOf(self)
            /\ self'.fdl_cursor = self.fdl_cursor
       /\ Len(hist') = Len(hist) + 1 =>
            out'.value = Replay(ctor.args, hist').value]_vars

\* a call has just failed on an engine whose buffer, FDL and cursor are not
\* in their initial state
C2_Witness ==
    /\ Constructed /\ out.raised = "ValueError"
    /\ Len(hist) = 2 /\ self.fdl_cursor = 2
    /\ self.input_buffer_td # Zeros2(self.input_C, self.fft_size)
    /\ hist[2] # Zeros2(self.input_C, self.B)

\* ------------------------------------------------------------------ C5
\* C5: the cursor is always in 0 .. K-1 and is 0 after construction; an
\* accepted call stores the spectrum of its window at the slot the cursor
\* points at, hands that same cursor to the multiply, and then moves the
\* cursor to (cursor + 1) mod K; a failed call leaves the cursor alone.
C5_CursorAdvance ==
    [][/\ self'.cls # "None" => self'.fdl_cursor \in Range(self'.K)
       /\ (self.cls = "None" /\ self'.cls # "None") => self'.fdl_cursor = 0
       /\ (Constructed /\ Len(hist') = Len(hist) + 1) =>
            /\ Slot(self', self.fdl_cursor) = SpectrumAfter(hist', Len(hist))
            /\ out'.mac_cursor = self.fdl_cursor
            /\ self'.fdl_cursor = (self.fdl_cursor + 1) % self.K
       /\ (Constructed /\ hist' = hist) =>
            self'.fdl_cursor = self.fdl_cursor]_vars

\* the cursor has wrapped from K - 1 to 0 (K = 3), and for K = 1 it stays 0
C5_Witness ==
    /\ Constructed /\ out.raised = "None"
    /\ self.K = 3 /\ Len(hist) = 3
    /\ out.mac_cursor = 2 /\ self.fdl_cursor = 0
    /\ hist[3] # Zeros2(self.input_C, self.B)

\* ------------------------------------------------------------------ C6
\* C6: an accepted call, the n-th from 0, changes the one FDL slot the cursor
\* points at; that slot held the oldest stored spectrum, the one of the window
\* of call n - K (all zero for n < K); afterwards the K slots hold the spectra
\* of the windows of calls n, n-1, .., n-K+1, one each, and the cursor is
\* (n + 1) mod K, so it is back at 0 after every K calls.
C6_RingHoldsLastK ==
    [][(Constructed /\ Len(hist') = Len(hist) + 1) =>
            LET n == Len(hist)
                K == self.K
            IN  /\ \A p \in Range(K) \ {self.fdl_cursor} :
                        Slot(self', p) = Slot(self, p)
                /\ Slot(self, self.fdl_cursor) = SpectrumAfter(hist, n - K)
                /\ \A j \in Range(K) :
                        Slot(self', (n - j) % K) = SpectrumAfter(hist', n - j)
                /\ self'.fdl_cursor = (n + 1) % K]_vars

\* two partitions, third call: the slot written by the first call (a nonzero
\* window) has been overwritten by the third
C6_Witness ==
    /\ Constructed /\ out.raised = "None"
    /\ self.K = 2 /\ Len(hist) = 3 /\ self.fdl_cursor = 1
    /\ hist[1] # Zeros2(self.input_C, self.B)
    /\ hist[3] # Zeros2(self.input_C, self.B)
    /\ hist[3] # hist[1]

\* ------------------------------------------------------------------ C3
\* the constructor's effective device: each back-end class passes its own
DeviceOf(a) ==
    CASE a.cls = "PartitionedConvolutionCPU" -> "cpu"
      [] a.cls = "PartitionedConvolutionGPU" -> "gpu"
      [] OTHER -> a.device

\* the arguments break one of the conditions the claim lists
BreaksACondition(a) ==
    \/ a.filter_td.ndim # 2
    \/ LET C == a.filter_td.shape[1]
           FL == a.filter_td.shape[2]
           B == a.block_length_samples
           N == IF a.fft_size = <<>> THEN 2 * B ELSE a.fft_size[1]
       IN  \/ FL < B
           \/ B < 1
           \/ FL < 1
           \/ C < 1
           \/ a.num_input_channels \notin {1, C}
           \/ N < 2 * B
           \/ DeviceOf(a) \notin {"cpu", "gpu"}

\* C3: a constructor call whose arguments break one of the listed conditions
\* raises the validation error and leaves no engine; every other call
\* returns an engine.
C3_ValidationError ==
    ctor.called =>
        IF BreaksACondition(ctor.args)
        THEN ctor.raised = "ValueError" /\ ~Constructed
        ELSE ctor.raised = "None" /\ Constructed

\* ------------------------------------------------------------------ C8
\* taps k*B .. (k+1)*B - 1 of channel c, zero from index FL on, then N - B zeros
PaddedTaps(c, k) ==
    [t \in Range(self.fft_size) |->
        IF t < self.B /\ k * self.B + t < self.FL
        THEN ctor.args.filter_td.data[c][k * self.B + t]
        ELSE 0]

\* C8: for every channel c and every k in 0 .. K-1, the stored partition k of
\* channel c is the transform of taps k*B .. (k+1)*B - 1 of channel c in their
\* order (zero from index FL on) followed by N - B zeros.
C8_Partitions ==
    Constructed =>
        \A c \in Range(self.C) : \A k \in Range(self.K) :
            [m \in Range(self.num_bins) |-> self.filters_fd[c][m][k]] =
                rfft(PaddedTaps(c, k), UnitOf(self.fft_size))

\* two channels, two partitions, the last one zero-padded, all taps distinct
C8_Witness ==
    /\ Constructed /\ self.C = 2 /\ self.B = 2 /\ self.FL = 3 /\ self.K = 2
    /\ ctor.args.filter_td.data = Ramp(2, 3)
    /\ self.filters_fd[1][0][1] = <<6, 0, 0>>

\* ------------------------------------------------------------------ C9
\* the shape of a 3-D array
Shape3(a) == <<Dim(a), Dim(a[0]), Dim(a[0][0])>>

\* C9: the stored filter spectrum table has shape K x M x C (partitions
\* outermost, channels innermost).
C9_TableShape ==
    Constructed => Shape3(self.filters_fd) = <<self.K, self.num_bins, self.C>>
====
